---- MODULE Spec2Model ----
(***************************************************************************)
(* The historical swap ingester of "Historical analysis/                   *)
(* Uniswap_data_loading.ipynb": fetch_swaps (one page request to the       *)
(* subgraph) and download_all_swaps (the pagination loop with its          *)
(* "except Exception: dump to swaps_backup.csv, re-raise" handler),        *)
(* together with the subgraph as the query text asks it to behave          *)
(* (first/skip/orderBy timestamp asc/where) over a static set of trades.   *)
(***************************************************************************)
EXTENDS Integers, Sequences, FiniteSets, TLC

(* ---------------------------------------------------------------- bounds *)
\* Trades known to the subgraph are numbered 1..MaxId (all pools together).
MaxId == 5
\* BATCH_SIZE is 1000 in the notebook; the model draws it from 1..MaxBatch.
MaxBatch == 3
\* Number of calls of download_all_swaps in one behaviour.
MaxRuns == 2
\* No call needs more than MaxId + 1 requests (page size 1, every trade in
\* range, one empty page); the request log is capped one above that.
MaxRequests == MaxId + 2
\* Token amounts of a quote, in units of the token, are drawn from 1..MaxAmount.
MaxAmount == 6
\* Submissions that did not reach the mempool are retried at most this often.
MaxSubmitRetries == 2
\* The pool price, in raw units of token1 per raw unit of token0, is in 1..MaxPrice.
MaxPrice == 3
\* A token has 0..MaxDecimals decimals.
MaxDecimals == 2
\* The encoded square-root price is a fixed-point number with QBits fractional
\* bits (96 on chain), in 1..MaxSqrt.
QBits == 2
MaxSqrt == 40
\* Significant digits of the decimal arithmetic context.
Prec == 3

(* ------------------------------------------------------------- variables *)
VARIABLES
    trades,         \* subgraph: trade id -> pool it belongs to (static)
    BATCH_SIZE,     \* notebook global, the page size of every request
    timestamp_gte,  \* argument of the call: {} is None, {t} is the bound t
    timestamp_lte,  \* argument of the call: {} is None, {t} is the bound t
    pc,             \* position of the notebook inside download_all_swaps
    all_swaps,      \* local of download_all_swaps
    skip,           \* local of download_all_swaps
    failed,         \* log: some request of the current call got no usable answer
    requests,       \* log: the queries posted by the current call, in order
    pages,          \* log: length of every page fetch_swaps returned to the call
    result,         \* what the last normal return handed to the caller
    storage,        \* swaps_backup.csv: [exists, rows]
    writes,         \* log: number of to_csv calls made by the current call
    runs,           \* number of calls made so far
    prev,           \* log: how the call before the current one ended
    swap,           \* the sell/buy call of the pool helper in progress
    chain,          \* the network's view of the transaction of that call
    pool,           \* the pool helper: token decimals (fixed) and the live pool price
    tasks,          \* the quote calls of the concurrent trade-evaluation tasks
    codec           \* the inputs and results of the price codec's calls

ingesterVars == <<trades, BATCH_SIZE, timestamp_gte, timestamp_lte, pc, all_swaps, skip,
                  failed, requests, pages, result, storage, writes, runs, prev>>

helperVars == <<swap, chain, pool, tasks, codec>>

vars == <<ingesterVars, helperVars>>

(* ------------------------------------------------- pool helper at rest *)
\* No sell or buy call has been made.
IdleSwap ==
    [state |-> "Idle", kind |-> "none", amount_in |-> 0, amount_out |-> 0,
     slippage |-> 0, bound |-> 0, attempts |-> 0, sent |-> 0,
     returned |-> "nothing", tx |-> 0, hist |-> <<>>]

\* No transaction of the wallet is known to the network.
NoTx == [status |-> "none", actual |-> 0, delta |-> 0, includedWhen |-> "never"]

Tasks == {"task1", "task2"}

\* A task that is not inside a quote call.
IdleTask ==
    [phase |-> "idle", kind |-> "none", token_in |-> 0, amount |-> 0,
     snapshot |-> 0, seen |-> 0,
     quote |-> [amount_in |-> 0, amount_out |-> 0, actual_price |-> <<0, 1>>]]

\* The pool helper initialized for a pool whose tokens have d0 and d1 decimals.
Initialized(d0, d1, price) == [decimals |-> <<d0, d1>>, price |-> price]

PoolIdle == pool = Initialized(0, 0, 1) /\ tasks = [t \in Tasks |-> IdleTask]

\* No price decoded: the encoded price and decimals of the pool at rest.
NoPrice == <<0, 0>>
Encoded(x, d0, d1) ==
    [encoded_sqrt_price |-> x, decimals0 |-> d0, decimals1 |-> d1,
     price |-> NoPrice, reverse |-> NoPrice, twice |-> NoPrice]
CodecIdle == codec = Encoded(1, 0, 0)

HelperIdle == swap = IdleSwap /\ chain = NoTx /\ PoolIdle /\ CodecIdle

(* -------------------------------------------------------------- subgraph *)
Pools == {"USDC/WETH", "USDC/USDT"}

POOL_ADDRESS == "USDC/WETH"

Ids == 1..MaxId

\* Two consecutive trades share a block timestamp; ids follow time.
Timestamp(id) == (id + 1) \div 2

Timestamps == {Timestamp(id) : id \in Ids}

\* The fields of a swap entity the query selects (the price and amount
\* fields are carried along untouched and are left out).
Swap(id) == [id |-> id, timestamp |-> Timestamp(id)]

\* filters without the "is not None" checks: a bound that is None is sent too.
Filters_NoneSent(pool_address, gte, lte) ==
    [pool |-> pool_address,
     timestamp_gte |-> IF gte = {} THEN {0} ELSE gte,
     timestamp_lte |-> IF lte = {} THEN {0} ELSE lte]

\* filters of fetch_swaps: the pool always, a bound only when it is not None.
Filters(pool_address, gte, lte) ==
    [pool |-> pool_address, timestamp_gte |-> gte, timestamp_lte |-> lte]

\* The query fetch_swaps posts.
Query(pool_address, gte, lte, skp) ==
    [first |-> BATCH_SIZE, skip |-> skp, where |-> Filters(pool_address, gte, lte)]

\* where: { pool: ..., timestamp_gte: ..., timestamp_lte: ... }
Matches(id, where) ==
    /\ trades[id] = where.pool
    /\ \A t \in where.timestamp_gte : Timestamp(id) >= t
    /\ \A t \in where.timestamp_lte : Timestamp(id) <= t

RECURSIVE SortedFrom(_, _)
\* orderBy: timestamp, orderDirection: asc (ties in entity order) of the
\* matching trades with id >= id.
SortedFrom(id, where) ==
    IF id > MaxId THEN <<>>
    ELSE IF Matches(id, where) THEN <<Swap(id)>> \o SortedFrom(id + 1, where)
    ELSE SortedFrom(id + 1, where)

Matching(where) == SortedFrom(1, where)

Min(a, b) == IF a < b THEN a ELSE b

\* first: q.first, skip: q.skip of the ordered matches.
ServePage(q) ==
    LET all == Matching(q.where)
    IN  SubSeq(all, q.skip + 1, Min(Len(all), q.skip + q.first))

\* What requests.post(...).json() can give for the query q: the page asked
\* for, a GraphQL answer with an "errors" field (with or without partial
\* data), or no answer at all (the transport raises).
Responses(q) ==
    { [status |-> "ok",   errors |-> FALSE, swaps |-> ServePage(q)],
      [status |-> "ok",   errors |-> TRUE,  swaps |-> <<>>],
      [status |-> "ok",   errors |-> TRUE,  swaps |-> ServePage(q)],
      [status |-> "down", errors |-> FALSE, swaps |-> <<>>] }

\* The answers of a service that answers every request.
Answers(q) == {res \in Responses(q) : res.status = "ok" /\ ~res.errors}

IsFailure(res) == res.status = "down" \/ res.errors

(* -------------------------------------------------------------- notebook *)
\* fetch_swaps without the check of the "errors" field.
fetch_swaps_unchecked(res) ==
    IF res.status = "down"
    THEN [raised |-> TRUE, swaps |-> <<>>]
    ELSE [raised |-> FALSE, swaps |-> res.swaps]

\* fetch_swaps, from the response on: raise on a transport error or on an
\* "errors" field, otherwise return res_json["data"]["swaps"].
fetch_swaps(res) ==
    IF res.status = "down" \/ res.errors
    THEN [raised |-> TRUE, swaps |-> <<>>]
    ELSE [raised |-> FALSE, swaps |-> res.swaps]

NoFile == [exists |-> FALSE, rows |-> <<>>]

\* A dump that writes nothing.
to_csv_skipped(file, rows) == file

\* pd.DataFrame(rows).to_csv("swaps_backup.csv", index=False): the file is
\* opened for writing, whatever it held before is gone.
to_csv(file, rows) == [exists |-> TRUE, rows |-> rows]

Optional(S) == {{}} \cup {{t} : t \in S}

Init ==
    /\ trades \in [Ids -> Pools]
    /\ BATCH_SIZE \in 1..MaxBatch
    /\ timestamp_gte \in Optional(Timestamps)
    /\ timestamp_lte \in Optional(Timestamps)
    /\ pc = "idle"
    /\ all_swaps = <<>>
    /\ skip = 0
    /\ failed = FALSE
    /\ requests = <<>>
    /\ pages = <<>>
    /\ result = <<>>
    /\ storage = NoFile
    /\ writes = 0
    /\ runs = 0
    /\ prev = [outcome |-> "idle", skip |-> 0, storage |-> NoFile]
    /\ HelperIdle

\* A call that does not reset skip to 0.
Call_KeepSkip ==
    /\ pc \in {"idle", "returned", "raised"}
    /\ runs < MaxRuns
    /\ runs' = runs + 1
    /\ prev' = [outcome |-> pc, skip |-> skip, storage |-> storage]
    /\ all_swaps' = <<>>
    /\ skip' = skip
    /\ failed' = FALSE
    /\ requests' = <<>>
    /\ pages' = <<>>
    /\ writes' = 0
    /\ pc' = "fetch"
    /\ UNCHANGED <<helperVars, trades, BATCH_SIZE, timestamp_gte, timestamp_lte, result, storage>>

\* download_all_swaps(POOL_ADDRESS, timestamp_gte, timestamp_lte) is called:
\* all_swaps = [], skip = 0, and the try block is entered.
Call ==
    /\ pc \in {"idle", "returned", "raised"}
    /\ runs < MaxRuns
    /\ runs' = runs + 1
    /\ prev' = [outcome |-> pc, skip |-> skip, storage |-> storage]
    /\ all_swaps' = <<>>
    /\ skip' = 0
    /\ failed' = FALSE
    /\ requests' = <<>>
    /\ pages' = <<>>
    /\ writes' = 0
    /\ pc' = "fetch"
    /\ UNCHANGED <<helperVars, trades, BATCH_SIZE, timestamp_gte, timestamp_lte, result, storage>>

\* fetch_swaps builds the query from its arguments and posts it.
Post ==
    /\ pc = "fetch"
    /\ Len(requests) < MaxRequests
    /\ requests' = Append(requests, Query(POOL_ADDRESS, timestamp_gte, timestamp_lte, skip))
    /\ pc' = "wait"
    /\ UNCHANGED <<helperVars, writes, trades, BATCH_SIZE, timestamp_gte, timestamp_lte, all_swaps, skip,
                   failed, pages, result, storage, runs, prev>>

\* The loop body with "all_swaps = swaps" in place of all_swaps.extend(swaps).
ReceivePage_Assign(res) ==
    LET r == fetch_swaps(res)
    IN  /\ pc = "wait"
        /\ ~r.raised
        /\ r.swaps # <<>>
        /\ all_swaps' = r.swaps
        /\ skip' = skip + BATCH_SIZE
        /\ pages' = Append(pages, Len(r.swaps))
        /\ failed' = (failed \/ IsFailure(res))
        /\ pc' = "sleep"
        /\ UNCHANGED <<helperVars, writes, trades, BATCH_SIZE, timestamp_gte, timestamp_lte, requests,
                       result, storage, runs, prev>>

\* The loop body that also leaves the loop after a page shorter than BATCH_SIZE.
ReceivePage_ShortBreak(res) ==
    LET r == fetch_swaps(res)
    IN  /\ pc = "wait"
        /\ ~r.raised
        /\ r.swaps # <<>>
        /\ all_swaps' = all_swaps \o r.swaps
        /\ skip' = skip + BATCH_SIZE
        /\ pages' = Append(pages, Len(r.swaps))
        /\ failed' = (failed \/ IsFailure(res))
        /\ pc' = IF Len(r.swaps) < BATCH_SIZE THEN "break" ELSE "sleep"
        /\ UNCHANGED <<helperVars, writes, trades, BATCH_SIZE, timestamp_gte, timestamp_lte, requests,
                       result, storage, runs, prev>>

\* The loop body that also dumps all_swaps to swaps_backup.csv after the page.
ReceivePage_Checkpoint(res) ==
    LET r == fetch_swaps(res)
    IN  /\ pc = "wait"
        /\ ~r.raised
        /\ r.swaps # <<>>
        /\ all_swaps' = all_swaps \o r.swaps
        /\ skip' = skip + BATCH_SIZE
        /\ pages' = Append(pages, Len(r.swaps))
        /\ failed' = (failed \/ IsFailure(res))
        /\ storage' = to_csv(storage, all_swaps')
        /\ writes' = writes + 1
        /\ pc' = "sleep"
        /\ UNCHANGED <<helperVars, trades, BATCH_SIZE, timestamp_gte, timestamp_lte, requests,
                       result, runs, prev>>

\* The loop body with "skip += len(swaps)" in place of "skip += BATCH_SIZE".
ReceivePage_AdvanceByLen(res) ==
    LET r == fetch_swaps(res)
    IN  /\ pc = "wait"
        /\ ~r.raised
        /\ r.swaps # <<>>
        /\ all_swaps' = all_swaps \o r.swaps
        /\ skip' = skip + Len(r.swaps)
        /\ pages' = Append(pages, Len(r.swaps))
        /\ failed' = (failed \/ IsFailure(res))
        /\ pc' = "sleep"
        /\ UNCHANGED <<helperVars, writes, trades, BATCH_SIZE, timestamp_gte, timestamp_lte, requests,
                       result, storage, runs, prev>>

\* The loop body without time.sleep(0.2).
ReceivePage_NoSleep(res) ==
    LET r == fetch_swaps(res)
    IN  /\ pc = "wait"
        /\ ~r.raised
        /\ r.swaps # <<>>
        /\ all_swaps' = all_swaps \o r.swaps
        /\ skip' = skip + BATCH_SIZE
        /\ pages' = Append(pages, Len(r.swaps))
        /\ failed' = (failed \/ IsFailure(res))
        /\ pc' = "fetch"
        /\ UNCHANGED <<helperVars, writes, trades, BATCH_SIZE, timestamp_gte, timestamp_lte, requests,
                       result, storage, runs, prev>>

\* The loop body after a non-empty page: extend, advance skip, print, sleep.
ReceivePage(res) ==
    LET r == fetch_swaps(res)
    IN  /\ pc = "wait"
        /\ ~r.raised
        /\ r.swaps # <<>>
        /\ all_swaps' = all_swaps \o r.swaps
        /\ skip' = skip + BATCH_SIZE
        /\ pages' = Append(pages, Len(r.swaps))
        /\ failed' = (failed \/ IsFailure(res))
        /\ pc' = "sleep"
        /\ UNCHANGED <<helperVars, writes, trades, BATCH_SIZE, timestamp_gte, timestamp_lte, requests,
                       result, storage, runs, prev>>

\* "if not swaps: continue".
ReceiveEmpty_Continue(res) ==
    LET r == fetch_swaps(res)
    IN  /\ pc = "wait"
        /\ ~r.raised
        /\ r.swaps = <<>>
        /\ pages' = Append(pages, 0)
        /\ failed' = (failed \/ IsFailure(res))
        /\ pc' = "sleep"
        /\ UNCHANGED <<helperVars, writes, trades, BATCH_SIZE, timestamp_gte, timestamp_lte, all_swaps, skip,
                       requests, result, storage, runs, prev>>

\* "if not swaps: break".
ReceiveEmpty(res) ==
    LET r == fetch_swaps(res)
    IN  /\ pc = "wait"
        /\ ~r.raised
        /\ r.swaps = <<>>
        /\ pages' = Append(pages, 0)
        /\ failed' = (failed \/ IsFailure(res))
        /\ pc' = "break"
        /\ UNCHANGED <<helperVars, writes, trades, BATCH_SIZE, timestamp_gte, timestamp_lte, all_swaps, skip,
                       requests, result, storage, runs, prev>>

\* fetch_swaps raises: control goes to "except Exception as e".
ReceiveError(res) ==
    LET r == fetch_swaps(res)
    IN  /\ pc = "wait"
        /\ r.raised
        /\ failed' = TRUE
        /\ pc' = "except"
        /\ UNCHANGED <<helperVars, writes, trades, BATCH_SIZE, timestamp_gte, timestamp_lte, all_swaps, skip,
                       requests, pages, result, storage, runs, prev>>

\* time.sleep(0.2), then the next turn of "while True".
Sleep ==
    /\ pc = "sleep"
    /\ pc' = "fetch"
    /\ UNCHANGED <<helperVars, writes, trades, BATCH_SIZE, timestamp_gte, timestamp_lte, all_swaps, skip,
                   failed, requests, pages, result, storage, runs, prev>>

\* The except block up to the dump of all_swaps to swaps_backup.csv.
Flush ==
    /\ pc = "except"
    /\ storage' = to_csv(storage, all_swaps)
    /\ writes' = writes + 1
    /\ pc' = "reraise"
    /\ UNCHANGED <<helperVars, trades, BATCH_SIZE, timestamp_gte, timestamp_lte, all_swaps, skip,
                   failed, requests, pages, result, runs, prev>>

\* "raise": the exception leaves download_all_swaps.
Raise ==
    /\ pc = "reraise"
    /\ pc' = "raised"
    /\ UNCHANGED <<helperVars, writes, trades, BATCH_SIZE, timestamp_gte, timestamp_lte, all_swaps, skip,
                   failed, requests, pages, result, storage, runs, prev>>

\* A return that removes swaps_backup.csv first.
Return_Discard ==
    /\ pc = "break"
    /\ result' = all_swaps
    /\ storage' = NoFile
    /\ pc' = "returned"
    /\ UNCHANGED <<helperVars, writes, trades, BATCH_SIZE, timestamp_gte, timestamp_lte, all_swaps, skip,
                   failed, requests, pages, runs, prev>>

\* "return all_swaps" after the break.
Return ==
    /\ pc = "break"
    /\ result' = all_swaps
    /\ pc' = "returned"
    /\ UNCHANGED <<helperVars, writes, trades, BATCH_SIZE, timestamp_gte, timestamp_lte, all_swaps, skip,
                   failed, requests, pages, storage, runs, prev>>

LastQuery == requests[Len(requests)]

Next ==
    \/ Call
    \/ Post
    \/ pc = "wait" /\ \E res \in Responses(LastQuery) : ReceivePage(res)
    \/ pc = "wait" /\ \E res \in Responses(LastQuery) : ReceiveEmpty(res)
    \/ pc = "wait" /\ \E res \in Responses(LastQuery) : ReceiveError(res)
    \/ Sleep
    \/ Flush
    \/ Raise
    \/ Return

Spec == Init /\ [][Next]_vars

\* The same notebook against a service that answers every request.
NextAnswered ==
    \/ Call
    \/ Post
    \/ pc = "wait" /\ \E res \in Answers(LastQuery) : ReceivePage(res)
    \/ pc = "wait" /\ \E res \in Answers(LastQuery) : ReceiveEmpty(res)
    \/ Sleep
    \/ Return

LiveSpec == Init /\ [][NextAnswered]_vars /\ WF_vars(NextAnswered)

(* ------------------------------------------- subgraph that is still indexing *)
\* A trade the subgraph has not indexed yet matches no query.
Unindexed == "unindexed"

\* The subgraph indexes one more trade of the pool; the trade takes its place
\* in the timestamp order, before the trades of later timestamps or ids.
Index(id) ==
    /\ trades[id] = Unindexed
    /\ trades' = [trades EXCEPT ![id] = POOL_ADDRESS]
    /\ UNCHANGED <<helperVars, BATCH_SIZE, timestamp_gte, timestamp_lte, pc, all_swaps, skip,
                   failed, requests, pages, result, storage, writes, runs, prev>>

\* The notebook before its first call, some trades of the pool not yet indexed.
IndexInit ==
    /\ trades \in [Ids -> {POOL_ADDRESS, Unindexed}]
    /\ BATCH_SIZE \in 1..MaxBatch
    /\ timestamp_gte = {}
    /\ timestamp_lte \in Optional(Timestamps)
    /\ pc = "idle"
    /\ all_swaps = <<>>
    /\ skip = 0
    /\ failed = FALSE
    /\ requests = <<>>
    /\ pages = <<>>
    /\ result = <<>>
    /\ storage = NoFile
    /\ writes = 0
    /\ runs = 0
    /\ prev = [outcome |-> "idle", skip |-> 0, storage |-> NoFile]
    /\ HelperIdle

IndexNext ==
    \/ Next
    \/ \E id \in Ids : Index(id)

IndexSpec == IndexInit /\ [][IndexNext]_vars

(* --------------------------------------- subgraph that may return short pages *)
\* The answers of a service that returns at most the page asked for: any
\* leading part of it, down to nothing.
Truncated(q) ==
    { [status |-> "ok", errors |-> FALSE, swaps |-> SubSeq(ServePage(q), 1, k)] :
          k \in 0..Len(ServePage(q)) }

ShortNext ==
    \/ Call
    \/ Post
    \/ pc = "wait" /\ \E res \in Truncated(LastQuery) : ReceivePage(res)
    \/ pc = "wait" /\ \E res \in Truncated(LastQuery) : ReceiveEmpty(res)
    \/ pc = "wait" /\ \E res \in Responses(LastQuery) : ReceiveError(res)
    \/ Sleep
    \/ Flush
    \/ Raise
    \/ Return

ShortSpec == Init /\ [][ShortNext]_vars



(* ---------------------------------------------------------- SwapExecutor *)
\* The notebook at rest while the pool helper is exercised.
IngesterIdle ==
    /\ trades = [id \in Ids |-> POOL_ADDRESS]
    /\ BATCH_SIZE = 1
    /\ timestamp_gte = {}
    /\ timestamp_lte = {}
    /\ pc = "idle"
    /\ all_swaps = <<>>
    /\ skip = 0
    /\ failed = FALSE
    /\ requests = <<>>
    /\ pages = <<>>
    /\ result = <<>>
    /\ storage = NoFile
    /\ writes = 0
    /\ runs = 0
    /\ prev = [outcome |-> "idle", skip |-> 0, storage |-> NoFile]

Amounts == 1..MaxAmount

\* Slippage tolerances in percent (the test cells pass 0.01).
Slippages == {1, 10, 50}

\* num/den rounded half-even to a whole number of token units.
RoundHalfEven(num, den) ==
    LET q == num \div den
        r == num % den
    IN  IF 2 * r < den THEN q
        ELSE IF 2 * r > den THEN q + 1
        ELSE IF q % 2 = 0 THEN q ELSE q + 1

\* Minimum output of a sell = amount_out x (1 - slippage); maximum input of a
\* buy = amount_in x (1 + slippage); round-half-even at token-unit granularity.
SlippageBound(kind, amount_in, amount_out, slippage) ==
    IF kind = "sell"
    THEN RoundHalfEven(amount_out * (100 - slippage), 100)
    ELSE RoundHalfEven(amount_in * (100 + slippage), 100)

\* sell/buy, steps (a) to (c), when the quote cannot be had: the amount is not
\* positive or the oracle reports insufficient liquidity; the error goes to
\* the caller and nothing is built.
SwapRejected(kind) ==
    /\ swap.state = "Idle"
    /\ swap' = [swap EXCEPT !.state = "Failed", !.kind = kind, !.returned = "error"]
    /\ UNCHANGED <<ingesterVars, chain, pool, tasks, codec>>

\* sell/buy, steps (a) to (c): fresh quote, slippage bound, transaction built
\* with its deadline.
SwapBuilt(kind, amount_in, amount_out, slippage) ==
    /\ swap.state = "Idle"
    /\ swap' = [swap EXCEPT
                  !.state = "Built", !.kind = kind,
                  !.amount_in = amount_in, !.amount_out = amount_out,
                  !.slippage = slippage,
                  !.bound = SlippageBound(kind, amount_in, amount_out, slippage),
                  !.hist = <<"Built">>]
    /\ UNCHANGED <<ingesterVars, chain, pool, tasks, codec>>

\* A build that hands the transaction to the network without the signing step.
SwapSigned_Skipped ==
    /\ swap.state = "Built"
    /\ swap' = [swap EXCEPT !.state = "Submitted", !.sent = @ + 1, !.tx = 1,
                            !.hist = Append(@, "Submitted")]
    /\ chain' = [chain EXCEPT !.status = "pending"]
    /\ UNCHANGED <<ingesterVars, pool, tasks, codec>>

\* Step (d): sign with the supplied credential.
SwapSigned ==
    /\ swap.state = "Built"
    /\ swap' = [swap EXCEPT !.state = "Signed", !.hist = Append(@, "Signed")]
    /\ UNCHANGED <<ingesterVars, chain, pool, tasks, codec>>

\* Step (e), the submission does not reach the mempool: retried with backoff,
\* a bounded number of times.
SubmitRetried ==
    /\ swap.state = "Signed"
    /\ swap.attempts < MaxSubmitRetries
    /\ swap' = [swap EXCEPT !.attempts = @ + 1]
    /\ UNCHANGED <<ingesterVars, chain, pool, tasks, codec>>

\* Step (e), the retries are used up: NetworkUnavailableError goes to the caller.
SubmitGivenUp ==
    /\ swap.state = "Signed"
    /\ swap.attempts = MaxSubmitRetries
    /\ swap' = [swap EXCEPT !.state = "Failed", !.returned = "error"]
    /\ UNCHANGED <<ingesterVars, chain, pool, tasks, codec>>

\* A submission that returns the transaction identifier as a success at once.
Submitted_Optimistic ==
    /\ swap.state = "Signed"
    /\ swap' = [swap EXCEPT !.state = "Confirmed", !.sent = @ + 1, !.tx = 1,
                            !.returned = "tx",
                            !.hist = Append(Append(@, "Submitted"), "Confirmed")]
    /\ chain' = [chain EXCEPT !.status = "pending"]
    /\ UNCHANGED <<ingesterVars, pool, tasks, codec>>

\* Step (e), the signed transaction reaches the mempool and gets its identifier.
Submitted ==
    /\ swap.state = "Signed"
    /\ swap' = [swap EXCEPT !.state = "Submitted", !.sent = @ + 1, !.tx = 1,
                            !.hist = Append(@, "Submitted")]
    /\ chain' = [chain EXCEPT !.status = "pending"]
    /\ UNCHANGED <<ingesterVars, pool, tasks, codec>>

\* The network includes the pending transaction at the price of that moment:
\* the router reverts a sell whose output is below the minimum, a buy whose
\* input is above the maximum, and any transaction past its deadline.
ChainIncludes(actual, late) ==
    LET ok == /\ ~late
              /\ IF swap.kind = "sell" THEN actual >= swap.bound
                                       ELSE actual <= swap.bound
    IN  /\ chain.status = "pending"
        /\ chain' = [status |-> IF ok THEN "success" ELSE "revert",
                     actual |-> actual,
                     delta  |-> IF ok THEN actual ELSE 0,
                     includedWhen |-> swap.state]
        /\ UNCHANGED <<ingesterVars, swap, pool, tasks, codec>>

\* Polling by identifier answers confirmed-success: Confirmed, sell/buy
\* returns the transaction identifier.
PollConfirmed ==
    /\ swap.state = "Submitted"
    /\ chain.status = "success"
    /\ swap' = [swap EXCEPT !.state = "Confirmed", !.returned = "tx",
                            !.hist = Append(@, "Confirmed")]
    /\ UNCHANGED <<ingesterVars, chain, pool, tasks, codec>>

\* A revert answered by sending the trade again.
PollReverted_Resubmits ==
    /\ swap.state = "Submitted"
    /\ chain.status = "revert"
    /\ swap.sent < MaxSubmitRetries + 2
    /\ swap' = [swap EXCEPT !.sent = @ + 1]
    /\ chain' = [chain EXCEPT !.status = "pending"]
    /\ UNCHANGED <<ingesterVars, pool, tasks, codec>>

\* Polling by identifier answers confirmed-revert: Reverted, surfaced with
\* the revert reason.
PollReverted ==
    /\ swap.state = "Submitted"
    /\ chain.status = "revert"
    /\ swap' = [swap EXCEPT !.state = "Reverted", !.returned = "reverted",
                            !.hist = Append(@, "Reverted")]
    /\ UNCHANGED <<ingesterVars, chain, pool, tasks, codec>>

\* A timeout that withdraws the transaction from the network.
TimesOut_Cancels ==
    /\ swap.state = "Submitted"
    /\ swap' = [swap EXCEPT !.state = "TimedOut", !.returned = "pending-tx",
                            !.hist = Append(@, "TimedOut")]
    /\ chain' = NoTx
    /\ UNCHANGED <<ingesterVars, pool, tasks, codec>>

\* The wait for a terminal state times out: TimedOut, surfaced with the
\* pending transaction identifier; the transaction stays where it is.
TimesOut ==
    /\ swap.state = "Submitted"
    /\ swap' = [swap EXCEPT !.state = "TimedOut", !.returned = "pending-tx",
                            !.hist = Append(@, "TimedOut")]
    /\ UNCHANGED <<ingesterVars, chain, pool, tasks, codec>>

SwapInit == IngesterIdle /\ HelperIdle

SwapNext ==
    \/ \E kind \in {"sell", "buy"} : SwapRejected(kind)
    \/ \E kind \in {"sell", "buy"}, ai \in Amounts, ao \in Amounts, sl \in Slippages :
           SwapBuilt(kind, ai, ao, sl)
    \/ SwapSigned
    \/ SubmitRetried
    \/ SubmitGivenUp
    \/ Submitted
    \/ \E actual \in 0..MaxAmount, late \in BOOLEAN : ChainIncludes(actual, late)
    \/ PollConfirmed
    \/ PollReverted
    \/ TimesOut

SwapSpec == SwapInit /\ [][SwapNext]_vars

(* ----------------------------------------------------------- QuoteEngine *)
RECURSIVE Pow10(_)
Pow10(d) == IF d <= 0 THEN 1 ELSE 10 * Pow10(d - 1)

\* The fraction num/den of two amounts given in raw units of tokens with
\* d_num and d_den decimals, as a pair <<numerator, denominator>>.
Normalized(num, d_num, den, d_den) ==
    IF d_den >= d_num
    THEN <<num * Pow10(d_den - d_num), den>>
    ELSE <<num, den * Pow10(d_num - d_den)>>

\* A buy quote priced like a sell quote: output per input.
ActualPriceBuy_OutPerIn(amount_in, d_in, amount_out, d_out) ==
    Normalized(amount_out, d_out, amount_in, d_in)

\* actual_price of get_sell_quote: token received per token sold.
ActualPriceSell(amount_in, d_in, amount_out, d_out) ==
    Normalized(amount_out, d_out, amount_in, d_in)

\* actual_price of get_buy_quote: token paid per token bought.
ActualPriceBuy(amount_in, d_in, amount_out, d_out) ==
    Normalized(amount_in, d_in, amount_out, d_out)

\* The quoting oracle simulated on a snapshot: the counter-amount of the
\* trade, 0 when the pool cannot fill it.
Oracle(kind, token_in, amount, price) ==
    IF kind = "sell"
    THEN IF token_in = 0 THEN amount * price ELSE amount \div price
    ELSE IF token_in = 1 THEN amount * price ELSE (amount + price - 1) \div price

\* get_sell_quote / get_buy_quote on a snapshot: amounts and realized price.
QuoteOf(kind, token_in, amount, price, decimals) ==
    LET counter == Oracle(kind, token_in, amount, price)
        d_in    == decimals[token_in + 1]
        d_out   == decimals[2 - token_in]
    IN  IF kind = "sell"
        THEN [amount_in |-> amount, amount_out |-> counter,
              actual_price |-> ActualPriceSell(amount, d_in, counter, d_out)]
        ELSE [amount_in |-> counter, amount_out |-> amount,
              actual_price |-> ActualPriceBuy(counter, d_in, amount, d_out)]

\* A read of the pool state that stores the snapshot on the shared helper.
ReadSnapshot_Shared(t, kind, token_in, amount) ==
    /\ tasks[t].phase = "idle"
    /\ tasks' = [u \in Tasks |->
                   IF u = t
                   THEN [tasks[t] EXCEPT !.phase = "read", !.kind = kind,
                                         !.token_in = token_in, !.amount = amount,
                                         !.snapshot = pool.price, !.seen = pool.price]
                   ELSE [tasks[u] EXCEPT !.snapshot = pool.price]]
    /\ UNCHANGED <<ingesterVars, swap, chain, pool, codec>>

\* A task enters get_sell_quote / get_buy_quote and reads its own snapshot
\* of the live pool state.
ReadSnapshot(t, kind, token_in, amount) ==
    /\ tasks[t].phase = "idle"
    /\ tasks' = [tasks EXCEPT ![t] =
                   [@ EXCEPT !.phase = "read", !.kind = kind,
                             !.token_in = token_in, !.amount = amount,
                             !.snapshot = pool.price, !.seen = pool.price]]
    /\ UNCHANGED <<ingesterVars, swap, chain, pool, codec>>

\* The task gets the oracle's answer for its snapshot and returns the quote;
\* a trade the pool cannot fill fails with InsufficientLiquidityError.
QuoteComputed(t) ==
    LET me == tasks[t]
        q  == QuoteOf(me.kind, me.token_in, me.amount, me.snapshot, pool.decimals)
    IN  /\ me.phase = "read"
        /\ tasks' = [tasks EXCEPT ![t] =
                       IF q.amount_in = 0 \/ q.amount_out = 0
                       THEN [@ EXCEPT !.phase = "failed"]
                       ELSE [@ EXCEPT !.phase = "quoted", !.quote = q]]
        /\ UNCHANGED <<ingesterVars, swap, chain, pool, codec>>

\* Other traders move the pool price.
PoolMoves(price) ==
    /\ price # pool.price
    /\ pool' = [pool EXCEPT !.price = price]
    /\ UNCHANGED <<ingesterVars, swap, chain, tasks, codec>>

QuoteInit ==
    /\ IngesterIdle
    /\ swap = IdleSwap
    /\ chain = NoTx
    /\ \E d0 \in 0..MaxDecimals, d1 \in 0..MaxDecimals, price \in 1..MaxPrice :
           pool = Initialized(d0, d1, price)
    /\ tasks = [t \in Tasks |-> IdleTask]
    /\ CodecIdle

QuoteNext ==
    \/ \E t \in Tasks, kind \in {"sell", "buy"}, token_in \in {0, 1}, amount \in {1, MaxAmount} :
           ReadSnapshot(t, kind, token_in, amount)
    \/ \E t \in Tasks : QuoteComputed(t)
    \/ \E price \in 1..MaxPrice : PoolMoves(price)

QuoteSpec == QuoteInit /\ [][QuoteNext]_vars

(* ------------------------------------------------------------ PriceCodec *)
\* A decimal is <<m, e>>, the number m x 10^e, with m of exactly Prec digits.

\* num / den x 10^e rounded half-even to Prec significant digits.
RECURSIVE RoundRatio(_, _, _)
RoundRatio(num, den, e) ==
    IF num < den * Pow10(Prec - 1) THEN RoundRatio(num * 10, den, e - 1)
    ELSE IF num >= den * Pow10(Prec) THEN RoundRatio(num, den * 10, e + 1)
    ELSE LET m == RoundHalfEven(num, den)
         IN  IF m = Pow10(Prec) THEN <<Pow10(Prec - 1), e + 1>> ELSE <<m, e>>

\* An inversion that keeps the decimal scale of its argument.
Invert_KeepScale(p) == RoundRatio(1, p[1], p[2])

\* 1 / p in the decimal context.
Invert(p) == RoundRatio(1, p[1], -p[2])

\* decode_price: (x / 2^QBits)^2 as token1 per token0 in raw units, scaled by
\* 10^(decimals0 - decimals1) to whole tokens, inverted on request.
decode_price(encoded_sqrt_price, decimals0, decimals1, invert) ==
    LET raw   == RoundRatio(encoded_sqrt_price * encoded_sqrt_price,
                            2^QBits * 2^QBits, 0)
        price == <<raw[1], raw[2] + decimals0 - decimals1>>
    IN  IF invert THEN Invert(price) ELSE price

\* get_current_price() on the snapshot.
GetCurrentPrice ==
    /\ codec.price = NoPrice
    /\ codec' = [codec EXCEPT !.price =
                    decode_price(codec.encoded_sqrt_price, codec.decimals0,
                                 codec.decimals1, FALSE)]
    /\ UNCHANGED <<ingesterVars, swap, chain, pool, tasks>>

\* get_current_price(reverse_price=True) on the same snapshot.
GetReversePrice ==
    /\ codec.reverse = NoPrice
    /\ codec' = [codec EXCEPT !.reverse =
                    decode_price(codec.encoded_sqrt_price, codec.decimals0,
                                 codec.decimals1, TRUE)]
    /\ UNCHANGED <<ingesterVars, swap, chain, pool, tasks>>

\* decode_price(x); invert; invert.
InvertTwice ==
    /\ codec.price # NoPrice
    /\ codec.twice = NoPrice
    /\ codec' = [codec EXCEPT !.twice = Invert(Invert(codec.price))]
    /\ UNCHANGED <<ingesterVars, swap, chain, pool, tasks>>

CodecInit ==
    /\ IngesterIdle
    /\ swap = IdleSwap
    /\ chain = NoTx
    /\ PoolIdle
    /\ \E x \in 1..MaxSqrt, d0 \in 0..MaxDecimals, d1 \in 0..MaxDecimals :
           codec = Encoded(x, d0, d1)

CodecNext == GetCurrentPrice \/ GetReversePrice \/ InvertTwice

CodecSpec == CodecInit /\ [][CodecNext]_vars

(* ---------------------------------------------------------------- claims *)
\* The trades of the pool inside [timestamp_gte, timestamp_lte], stated on
\* the arguments of the call and not through the service.
InRange(id) ==
    /\ trades[id] = POOL_ADDRESS
    /\ \A t \in timestamp_gte : Timestamp(id) >= t
    /\ \A t \in timestamp_lte : Timestamp(id) <= t

InRangeIds == {id \in Ids : InRange(id)}

N == Cardinality(InRangeIds)

\* The whole history of the call's range as the service orders it.
History == Matching(Filters(POOL_ADDRESS, timestamp_gte, timestamp_lte))

IsPrefix(s, t) == Len(s) <= Len(t) /\ SubSeq(t, 1, Len(s)) = s

Ascending(s) ==
    \A i, j \in 1..Len(s) :
        i < j => s[i].timestamp <= s[j].timestamp /\ s[i].id # s[j].id

RECURSIVE Sum(_)
Sum(s) == IF s = <<>> THEN 0 ELSE s[1] + Sum(Tail(s))

Ceil(a, b) == (a + b - 1) \div b

\* The cap of the request log never binds: it cuts no behaviour of the notebook.
CapNeverBinds == pc = "fetch" => Len(requests) < MaxRequests

\* C1: when download_all_swaps returns normally against the static dataset,
\* the returned list is the whole sorted history of the range: every record
\* of the range once, none missing, none twice, ascending by timestamp.
C1_CompleteHistory ==
    pc = "returned" =>
        /\ result = History
        /\ {r.id : r \in {result[i] : i \in 1..Len(result)}} = InRangeIds
        /\ Len(result) = N
        /\ Ascending(result)

C1_Witness ==
    /\ pc = "returned"
    /\ BATCH_SIZE = 2
    /\ Len(result) = 3
    /\ N < MaxId

\* C2: when a page request fails after k pages were fetched, the records of
\* exactly those k pages, in fetch order, are in swaps_backup.csv before the
\* exception leaves download_all_swaps.
C2_FlushBeforeRaise ==
    pc \in {"reraise", "raised"} =>
        /\ failed
        /\ storage.exists
        /\ storage.rows = all_swaps
        /\ storage.rows = SubSeq(History, 1, Sum(pages))
        /\ Len(requests) = Len(pages) + 1

C2_Witness ==
    /\ pc = "raised"
    /\ Len(pages) = 2
    /\ Len(storage.rows) = 2 * BATCH_SIZE
    /\ BATCH_SIZE > 1

C5_Terminates == (pc = "fetch") ~> (pc = "returned")

C5_Witness ==
    /\ pc = "returned"
    /\ Len(requests) >= 4
    /\ skip = (Len(requests) - 1) * BATCH_SIZE

C8_AppendOnly == [][IsPrefix(storage.rows, storage'.rows)]_vars

\* C9: download_all_swaps never returns normally in a call where a page
\* request failed: the failure is raised by fetch_swaps and re-raised.
C9_NoReturnAfterFailure ==
    failed => pc \in {"except", "reraise", "raised"}

C9_Witness ==
    /\ pc = "raised"
    /\ failed
    /\ Len(all_swaps) >= 2
    /\ result # all_swaps

\* C10 as stated: after a call that completes without error no
\* swaps_backup.csv remains.
C10_Original == pc = "returned" => ~storage.exists

\* C10 amended: a call that completes without error leaves swaps_backup.csv
\* as it found it, so the file of an earlier failed call remains.
C10_BackupKept ==
    pc = "returned" =>
        /\ storage = prev.storage
        /\ prev.outcome = "raised" => storage.exists

C10_Witness ==
    /\ pc = "returned"
    /\ prev.outcome = "raised"
    /\ storage.exists
    /\ storage.rows # <<>>

\* C11: download_all_swaps writes swaps_backup.csv only on failure: a call
\* in which every request succeeds makes no durable write, and a failing call
\* makes exactly one, in its except block, not one per fetched page.
C11_WriteOnlyOnFailure ==
    /\ writes <= 1
    /\ writes = 1 <=> pc \in {"reraise", "raised"}
    /\ pc \in {"fetch", "wait", "sleep", "break", "returned"} =>
           /\ writes = 0
           /\ storage = prev.storage

C11_Witness ==
    /\ pc = "raised"
    /\ Len(pages) >= 2
    /\ writes = 1
    /\ prev.outcome = "returned"

Terminal == {"Confirmed", "Reverted", "TimedOut"}

\* The states a call has been in are a prefix of Built, Signed, Submitted,
\* terminal state.
WellOrdered ==
    /\ Len(swap.hist) <= 4
    /\ \A i \in 1..Len(swap.hist) :
           /\ i = 1 => swap.hist[i] = "Built"
           /\ i = 2 => swap.hist[i] = "Signed"
           /\ i = 3 => swap.hist[i] = "Submitted"
           /\ i = 4 => swap.hist[i] \in Terminal
    /\ swap.state \notin {"Idle", "Failed"} => swap.state = swap.hist[Len(swap.hist)]
    /\ swap.state \in Terminal <=> Len(swap.hist) = 4

\* C12: sell/buy returns a transaction identifier as a success (Confirmed)
\* only when the network has included the transaction and it did not revert.
C12_ConfirmedOnlyIncluded ==
    (swap.state = "Confirmed" \/ swap.returned = "tx") =>
        /\ chain.status = "success"
        /\ swap.state = "Confirmed"
        /\ swap.returned = "tx"

C12_Witness ==
    /\ swap.state = "Confirmed"
    /\ chain.status = "success"
    /\ chain.delta > 0
    /\ swap.attempts > 0

\* C13: within one call at most one transaction ever reaches the mempool,
\* none is sent after Reverted or TimedOut, and only submissions that did not
\* reach the mempool are repeated, at most MaxSubmitRetries times.
C13_NeverRetried ==
    /\ swap.sent <= 1
    /\ swap.attempts <= MaxSubmitRetries
    /\ swap.state \in Terminal \cup {"Submitted"} => swap.sent = 1
    /\ swap.state \in {"Idle", "Built", "Signed", "Failed"} => swap.sent = 0
    /\ swap.state \in {"Idle", "Built"} => swap.attempts = 0

C13_Witness ==
    /\ swap.state = "Reverted"
    /\ swap.attempts = MaxSubmitRetries
    /\ swap.sent = 1

\* C14 as stated: every call goes Built, Signed, Submitted in that order and
\* ends in one of Confirmed, Reverted, TimedOut (it ends nowhere else).
C14_Original == WellOrdered /\ swap.state # "Failed"

\* C14 amended: the states of a call follow Built, Signed, Submitted, terminal
\* state in that order without skipping or revisiting; a call that reached
\* Submitted ends in one of the three terminal states; a call whose quote
\* fails or whose submission never reaches the mempool ends with an error
\* before Submitted and has sent nothing.
C14_StateOrder ==
    /\ WellOrdered
    /\ swap.state = "Failed" =>
           /\ swap.returned = "error"
           /\ swap.sent = 0
           /\ chain.status = "none"
           /\ swap.hist \in {<<>>, <<"Built", "Signed">>}
    /\ swap.returned # "nothing" <=> swap.state \in Terminal \cup {"Failed"}

C14_Witness ==
    /\ swap.state = "Failed"
    /\ swap.hist = <<"Built", "Signed">>
    /\ swap.attempts = MaxSubmitRetries

\* C15: a timeout in Submitted leads to TimedOut, which surfaces the pending
\* transaction identifier; the transaction is neither withdrawn nor sent
\* again, and the network may still include it afterwards.
C15_TimedOutKeepsTx ==
    swap.state = "TimedOut" =>
        /\ swap.returned = "pending-tx"
        /\ swap.tx = 1
        /\ swap.sent = 1
        /\ swap.hist = <<"Built", "Signed", "Submitted", "TimedOut">>
        /\ chain.status \in {"pending", "success", "revert"}

C15_Witness ==
    /\ swap.state = "TimedOut"
    /\ chain.status = "success"
    /\ chain.includedWhen = "TimedOut"

\* C16: the bound put in the transaction is never looser than the tolerance:
\* a sell's minimum output is not below amount_out x (1 - s), a buy's maximum
\* input is not above amount_in x (1 + s).
C16_NeverLooser ==
    /\ swap.kind = "sell" /\ swap.state # "Failed" =>
           100 * swap.bound >= swap.amount_out * (100 - swap.slippage)
    /\ swap.kind = "buy" /\ swap.state # "Failed" =>
           100 * swap.bound <= swap.amount_in * (100 + swap.slippage)

\* C17: a sell is never Confirmed with an actual output below the derived
\* minimum: an execution whose output is below amount_out x (1 - s) is
\* rejected (Reverted) and reports no balance change.
C17_SellRejectedBelowTolerance ==
    /\ (swap.kind = "sell" /\ chain.status = "success") =>
           /\ chain.actual >= swap.bound
           /\ 100 * chain.actual >= swap.amount_out * (100 - swap.slippage)
    /\ chain.status = "revert" => chain.delta = 0

\* Two fractions <<numerator, denominator>> are the same number.
SameRatio(p, q) == p[1] * q[2] = q[1] * p[2]

\* The human amount of out raw units per human amount of in raw units.
OutPerIn(q, d_in, d_out) == <<q.amount_out * Pow10(d_in), q.amount_in * Pow10(d_out)>>

\* The human amount of in raw units per human amount of out raw units.
InPerOut(q, d_in, d_out) == <<q.amount_in * Pow10(d_out), q.amount_out * Pow10(d_in)>>

DecimalsIn(t) == pool.decimals[tasks[t].token_in + 1]
DecimalsOut(t) == pool.decimals[2 - tasks[t].token_in]

\* The recorded quotes of the pool helper's test run, amounts in units of the
\* last printed digit: 0.01 WETH sold for 296.88935 USDC at 29688.935, and
\* 0.0001 WETH bought for 2.972231 USDC at 29722.31.
RecordedSell ==
    [amount_in |-> 1, d_in |-> 2, amount_out |-> 29688935, d_out |-> 5,
     actual_price |-> <<29688935, 1000>>]
RecordedBuy ==
    [amount_in |-> 2972231, d_in |-> 6, amount_out |-> 1, d_out |-> 4,
     actual_price |-> <<2972231, 100>>]

\* C18 as stated: the realized price of every quote, sell or buy, is the
\* output amount divided by the input amount, each decimal-normalized.
C18_Original ==
    \A t \in Tasks :
        tasks[t].phase = "quoted" =>
            SameRatio(tasks[t].quote.actual_price,
                      OutPerIn(tasks[t].quote, DecimalsIn(t), DecimalsOut(t)))

\* C18: the realized price of a sell quote is the decimal-normalized output
\* amount divided by the input amount (token received per token sold); the
\* realized price of a buy quote is the decimal-normalized input amount
\* divided by the output amount (token paid per token bought); the recorded
\* quotes of the test run are reproduced.
C18_PricePerTradedToken ==
    /\ \A t \in Tasks :
           tasks[t].phase = "quoted" =>
               /\ tasks[t].quote.actual_price[2] > 0
               /\ tasks[t].kind = "sell" =>
                      SameRatio(tasks[t].quote.actual_price,
                                OutPerIn(tasks[t].quote, DecimalsIn(t), DecimalsOut(t)))
               /\ tasks[t].kind = "buy" =>
                      SameRatio(tasks[t].quote.actual_price,
                                InPerOut(tasks[t].quote, DecimalsIn(t), DecimalsOut(t)))
    /\ ActualPriceSell(RecordedSell.amount_in, RecordedSell.d_in,
                       RecordedSell.amount_out, RecordedSell.d_out)
           = RecordedSell.actual_price
    /\ ActualPriceBuy(RecordedBuy.amount_in, RecordedBuy.d_in,
                      RecordedBuy.amount_out, RecordedBuy.d_out)
           = RecordedBuy.actual_price

\* A buy quote whose input and output differ in human units, next to a sell quote.
C18_Witness ==
    /\ tasks["task1"].phase = "quoted" /\ tasks["task1"].kind = "buy"
    /\ ~SameRatio(tasks["task1"].quote.actual_price,
                  OutPerIn(tasks["task1"].quote, DecimalsIn("task1"), DecimalsOut("task1")))
    /\ pool.decimals[1] # pool.decimals[2]
    /\ tasks["task2"].phase = "quoted" /\ tasks["task2"].kind = "sell"

Abs(n) == IF n < 0 THEN -n ELSE n

\* Decimals p and q differ by at most one part in 10^(Prec - 1) of p.
WithinTolerance(p, q) ==
    LET e  == IF p[2] < q[2] THEN p[2] ELSE q[2]
        mp == p[1] * Pow10(p[2] - e)
        mq == q[1] * Pow10(q[2] - e)
    IN  /\ Abs(p[2] - q[2]) <= 1
        /\ Abs(mp - mq) * Pow10(Prec - 1) <= mp

\* The product of decimals p and q is 1 to within half a part in 10^(Prec - 1).
Reciprocal(p, q) ==
    LET one == Pow10(-(p[2] + q[2]))
    IN  /\ p[2] + q[2] < 0
        /\ p[2] + q[2] >= -2 * Prec
        /\ Abs(p[1] * q[1] - one) <= one \div (2 * Pow10(Prec - 1))

\* C20: for every well-formed encoded price and decimal pair, the decoded
\* price inverted twice is the decoded price again within rounding tolerance
\* (one part in 10^(Prec - 1)), and the price returned with reverse_price=True
\* is the reciprocal of the price returned without it for the same snapshot.
C20_RoundTrip ==
    /\ codec.twice # NoPrice => WithinTolerance(codec.price, codec.twice)
    /\ codec.price # NoPrice /\ codec.reverse # NoPrice =>
           Reciprocal(codec.price, codec.reverse)

\* A price that does not come back exactly, with its reverse price, for
\* tokens of different decimals.
C20_Witness ==
    /\ codec.twice # NoPrice
    /\ codec.twice # codec.price
    /\ codec.reverse # NoPrice
    /\ codec.decimals0 # codec.decimals1

\* Number of non-empty pages among the first n pages received by the call.
NonEmpty(n) == Cardinality({j \in 1..n : pages[j] > 0})

\* C21: the offsets sent in a call are 0, P, 2P, ... strictly increasing: the
\* offset of each request is the page size times the number of non-empty
\* pages received before it, every request asks for the page size, the
\* offset moves only with a successful non-empty page, and no offset is
\* requested twice.
C21_OffsetsAdvanceByPage ==
    /\ \A i \in 1..Len(requests) :
           /\ Len(pages) >= i - 1
           /\ requests[i].skip = BATCH_SIZE * NonEmpty(i - 1)
           /\ requests[i].first = BATCH_SIZE
    /\ \A i \in 1..Len(requests) : \A j \in 1..Len(requests) :
           i < j => requests[i].skip < requests[j].skip
    /\ skip = BATCH_SIZE * NonEmpty(Len(pages))

\* A third request, sent after a full page and a short one.
C21_Witness ==
    /\ pc = "wait"
    /\ Len(requests) = 3
    /\ BATCH_SIZE = 2
    /\ pages = <<2, 1>>
    /\ LastQuery.skip = 4

\* Requests of the current call that have not been answered yet.
Outstanding ==
    Len(requests) - Len(pages) - (IF pc \in {"except", "reraise", "raised"} THEN 1 ELSE 0)

Sequential ==
    /\ Outstanding = (IF pc = "wait" THEN 1 ELSE 0)
    /\ pc \in {"fetch", "wait"} => Len(all_swaps) = Sum(pages)
    /\ Ascending(all_swaps)

\* C22: the ingester is strictly sequential and its record list append-only
\* and ascending: at most one request is outstanding, every page received is
\* in the list whole before the next request is issued, the list only grows
\* at its end during a call, and it is sorted ascending by timestamp.
C22_SequentialAppendOnly ==
    /\ []Sequential
    /\ [][pc \notin {"idle", "returned", "raised"} => IsPrefix(all_swaps, all_swaps')]_vars
    /\ [][Len(requests') > Len(requests) => pc = "fetch" /\ Outstanding = 0]_vars

\* Two pages appended one after the other, the third request outstanding.
C22_Witness ==
    /\ pc = "wait"
    /\ Len(requests) = 3
    /\ Len(pages) = 2
    /\ Len(all_swaps) = pages[1] + pages[2]
    /\ all_swaps[1].timestamp < all_swaps[Len(all_swaps)].timestamp

\* C23: the accumulated records have pairwise distinct event identifiers,
\* whether or not trades are indexed into the queried range between two page
\* requests of the call.
C23_DistinctIds ==
    \A i \in 1..Len(all_swaps) : \A j \in 1..Len(all_swaps) :
        i # j => all_swaps[i].id # all_swaps[j].id

\* The step is a page request.
Requests == Len(requests') = Len(requests) + 1

\* The step is the delay.
Delays == pc = "sleep" /\ pc' = "fetch"

\* C24: between two consecutive page requests of a call the delay elapses:
\* the loop comes to a request only from the start of the call (first
\* request) or from the delay, the delay follows a non-empty page only,
\* never the final empty page or a failed request, and is followed by a
\* request of the same call.
C24_DelayBetweenRequests ==
    /\ [][Requests => /\ pc = "fetch"
                      /\ Len(requests) = Len(pages)
                      /\ Len(requests') = NonEmpty(Len(pages)) + 1]_vars
    /\ [][pc' = "fetch" /\ pc # "fetch" =>
              \/ Delays /\ Len(requests) >= 1
              \/ pc \in {"idle", "returned", "raised"} /\ requests' = <<>>]_vars
    /\ [][pc' = "sleep" => /\ pc = "wait"
                           /\ pages' = Append(pages, Len(all_swaps') - Len(all_swaps))
                           /\ Len(all_swaps') > Len(all_swaps)
                           /\ ~failed']_vars
    /\ [](pc \in {"break", "returned", "except", "reraise", "raised"} =>
              \/ pages # <<>> /\ pages[Len(pages)] = 0 /\ Len(pages) = Len(requests)
              \/ failed /\ Len(pages) = Len(requests) - 1)

\* The second request of a call is outstanding: a delay lies behind it.
C24_Witness ==
    /\ pc = "wait"
    /\ Len(requests) = 2
    /\ pages = <<BATCH_SIZE>>
    /\ ~failed

\* C25: every page request of a call carries the pool, the timestamp bounds
\* and the page size of the first request, only the offset differs; a bound
\* passed as None is left out of the request, a bound given is sent as
\* given, and the pool filter is always present.
C25_SameQueryEveryPage ==
    \A i \in 1..Len(requests) :
        /\ requests[i].where = requests[1].where
        /\ requests[i].first = requests[1].first
        /\ requests[i].first = BATCH_SIZE
        /\ requests[i].where.pool = POOL_ADDRESS
        /\ requests[i].where.timestamp_gte = timestamp_gte
        /\ requests[i].where.timestamp_lte = timestamp_lte
        /\ \A j \in 1..Len(requests) :
               i # j => requests[i].skip # requests[j].skip

\* Three requests of a call with no lower bound and an upper bound.
C25_Witness ==
    /\ Len(requests) = 3
    /\ timestamp_gte = {}
    /\ timestamp_lte # {}
    /\ requests[3].where.timestamp_gte = {}
    /\ requests[3].where.timestamp_lte = timestamp_lte
    /\ requests[3].skip = 2 * BATCH_SIZE

\* The records of the first n pages of the call: page i holds the leading
\* pages[i] records of the window of BATCH_SIZE positions it asked for.
RECURSIVE Covered(_)
Covered(n) ==
    IF n = 0 THEN <<>>
    ELSE Covered(n - 1) \o SubSeq(History, (n - 1) * BATCH_SIZE + 1,
                                  (n - 1) * BATCH_SIZE + pages[n])

AllFull == \A j \in 1..Len(pages) : pages[j] = BATCH_SIZE

\* C26: at every page request the offset sent is at least the number of
\* records accumulated, with equality exactly when every page received
\* before was full: the offset advances by the page size whatever the page
\* held, so the records left out are those of a window beyond its short
\* page, for a service returning at most page-size records per page.
C26_OffsetAtLeastCount ==
    /\ \A j \in 1..Len(pages) : pages[j] <= BATCH_SIZE
    /\ pc = "wait" =>
           /\ LastQuery.skip >= Len(all_swaps)
           /\ LastQuery.skip = Len(all_swaps) <=> AllFull
           /\ LastQuery.skip = BATCH_SIZE * Len(pages)
    /\ pc \in {"fetch", "wait", "break", "returned"} =>
           all_swaps = Covered(Len(pages))

\* A short first page, a full second one; the third request starts beyond
\* the count, and the second record of the history was never fetched.
C26_Witness ==
    /\ pc = "wait"
    /\ BATCH_SIZE = 2
    /\ pages = <<1, 2>>
    /\ LastQuery.skip = 4
    /\ Len(all_swaps) = 3
    /\ all_swaps[2] = History[3]
    /\ \A i \in 1..Len(all_swaps) : all_swaps[i] # History[2]

====
